---- MODULE Spec2Model ----
(***************************************************************************)
(* Library-management REST backend (server.js): the loan transaction core *)
(* and the book / member ledgers it shares rows with.                      *)
(*                                                                         *)
(* The relational store is modelled as InnoDB behaves for the statements   *)
(* the handlers issue: committed tables, a private write set per open      *)
(* transaction that becomes visible at COMMIT, exclusive row locks taken   *)
(* by SELECT ... FOR UPDATE / UPDATE / DELETE / INSERT and held until      *)
(* COMMIT or ROLLBACK, and auto-increment ids that are never reused.  No   *)
(* schema is part of the repository, so no foreign key is assumed: the     *)
(* handlers do the reference checks themselves (server.js 269, 356).       *)
(* Every `await` of a handler is one atomic step of the request.           *)
(***************************************************************************)
EXTENDS Integers, FiniteSets, Sequences, TLC

VARIABLES
    books,      \* committed rows of table books, by id
    members,    \* committed rows of table members, by id
    loans,      \* committed rows of table borrowed_records, by id
    nextLoanId, \* AUTO_INCREMENT counter of borrowed_records
    locks,      \* exclusive row locks: owner request slot, or 0
    pool,       \* connections checked out of the pool
    today,      \* the calendar day (local time) of `new Date()`
    env,        \* what a run never changes: env.dst, the change of the server
                \* zone's UTC offset (hours) after day DstDay, and env.seed,
                \* the tables as they were when the server started
    req,        \* the HTTP requests, one per slot: the request in flight, or
                \* the response the slot sent last
    users,      \* committed rows of table users, by id
    autoInc     \* AUTO_INCREMENT counters of books, members and users

vars == <<books, members, loans, nextLoanId, locks, pool, today, env, req,
          users, autoInc>>

----------------------------------------------------------------------------
\* Bounds of the model.
NumProcs == 2
MaxBook == 2
MaxMember == 2
MaxLoan == 2
MaxCopies == 2
MaxDay == 1
DstDay == 0

\* Program constants.
DAILY_FINE_RATE == 100
ConnectionLimit == 10
HoursPerDay == 24

Procs == 1..NumProcs
BookIds == 1..MaxBook
MemberIds == 1..MaxMember
LoanIds == 1..MaxLoan
\* A member has at most one user; e-mail addresses are numbered.
UserIds == 1..MaxMember
Emails == 1..MaxMember
Days == 0..MaxDay
Titles == {"t1", "t2"}
Names == {"n1", "n2"}

\* An absent row.  Rows carry `live` so that tables are total functions.
NoBook == [live |-> FALSE, title |-> "", copies |-> 0, available |-> 0]
NoMember == [live |-> FALSE, name |-> "", userId |-> 0, booksBorrowed |-> 0,
             outstandingFines |-> 0]
NoLoan == [live |-> FALSE, bookId |-> 0, memberId |-> 0, bookTitle |-> "",
           memberName |-> "", dueDate |-> 0]

NoUser == [live |-> FALSE, email |-> 0]

\* What a handler keeps of a row it read: the fields it uses afterwards
\* (book.id, book.title; member.id, member.name), the other fields of the
\* copy are never read again.
\* (Mutant: the copy without the title.)
BookReadUntitled(row) == [NoBook EXCEPT !.live = row.live]

BookRead(row) == IF row.live THEN [NoBook EXCEPT !.live = TRUE, !.title = row.title]
                 ELSE NoBook
MemberRead(row) == IF row.live THEN [NoMember EXCEPT !.live = TRUE, !.name = row.name]
                   ELSE NoMember

\* The row updates of the loan transactions.
\* SET available = available - 1
BorrowedBook(row) == [row EXCEPT !.available = @ - 1]
\* SET booksBorrowed = booksBorrowed + 1
\* (Mutant: the count set to 1 instead of incremented.)
BorrowingMemberOnce(row) == [row EXCEPT !.booksBorrowed = 1]

BorrowingMember(row) == [row EXCEPT !.booksBorrowed = @ + 1]
\* (Mutant: the fine added, the count not decremented.)
ReturningMemberKept(row, fine) == [row EXCEPT !.outstandingFines = @ + fine]

\* SET available = available + 1
\* (Mutant: the copy is not credited.)
ReturnedBookKept(row) == row

ReturnedBook(row) == [row EXCEPT !.available = @ + 1]
\* SET booksBorrowed = booksBorrowed - 1, outstandingFines = outstandingFines + ?
ReturningMember(row, fine) ==
    [row EXCEPT !.booksBorrowed = @ - 1, !.outstandingFines = @ + fine]
\* SET outstandingFines = 0
\* (Mutant: the balance is kept.)
ClearedMemberKept(row) == row

ClearedMember(row) == [row EXCEPT !.outstandingFines = 0]

\* The empty write set of a transaction.
NoWrites == [i \in {} |-> NoBook]

IdleReq == [op |-> "idle", pc |-> "idle", res |-> "none", err |-> "none",
            bookId |-> 0, memberId |-> 0, userId |-> 0, dueDate |-> 0,
            borrowId |-> 0, copies |-> 0, title |-> "",
            book |-> NoBook, member |-> NoMember, record |-> NoLoan,
            newAvailable |-> 0, fine |-> 0,
            wb |-> NoWrites, wm |-> NoWrites, wl |-> NoWrites, wu |-> NoWrites,
            email |-> 0, name |-> ""]

NoLocks == [book |-> [i \in BookIds |-> 0],
            member |-> [i \in MemberIds |-> 0],
            loan |-> [i \in LoanIds |-> 0]]

----------------------------------------------------------------------------
\* The store.

\* Row `id` of `table` (absent when the id is outside the table).
Row(table, id, none) == IF id \in DOMAIN table THEN table[id] ELSE none

\* What transaction p reads with a locking read or writes over: its own
\* write set on top of the committed table.
TxRow(w, table, id, none) == IF id \in DOMAIN w THEN w[id] ELSE Row(table, id, none)

\* The write set w with row id set to row.
Put(w, id, row) == [i \in (DOMAIN w) \cup {id} |-> IF i = id THEN row ELSE w[i]]

\* The committed table with the write set w applied (COMMIT).
Apply(w, table) == [i \in DOMAIN table |-> IF i \in DOMAIN w THEN w[i] ELSE table[i]]

\* A statement of request p that needs the exclusive lock of row id can run:
\* the row is not locked by another transaction (otherwise the statement
\* waits).  An id outside the table locks nothing.
CanLock(p, kind, id) == id \in DOMAIN locks[kind] => locks[kind][id] \in {0, p}

\* p takes the lock of row id.
Lock(lk, p, kind, id) ==
    IF id \in DOMAIN lk[kind]
    THEN [lk EXCEPT ![kind][id] = p]
    ELSE lk

\* The lock of a locking read, SELECT ... FOR UPDATE, on a row it finds.
\* (Mutant: a plain SELECT, which locks nothing.)
ForUpdateNoLock(lk, p, kind, id) == lk

ForUpdate(lk, p, kind, id) == Lock(lk, p, kind, id)

\* COMMIT and ROLLBACK release every lock of p.
\* (Mutant: the locks stay with the ended transaction.)
UnlockKept(lk, p) == lk

Unlock(lk, p) ==
    [k \in DOMAIN lk |-> [i \in DOMAIN lk[k] |-> IF lk[k][i] = p THEN 0 ELSE lk[k][i]]]

\* A pool connection is free: db.query and db.getConnection wait otherwise.
PoolFree == pool < ConnectionLimit

----------------------------------------------------------------------------
\* Dates.

\* The UTC offset of the server's zone at local midnight of day d, relative
\* to the offset on day 0: the zone changes its offset by dst hours in the
\* course of day DstDay (env.dst = 0: a zone without daylight saving).
UtcOffset(d) == IF d > DstDay THEN env.dst ELSE 0

\* Local midnight of day d, in hours: `today.setHours(0,0,0,0)`, and the
\* Date the driver builds for a DATE column.
LocalMidnight(d) == HoursPerDay * d - UtcOffset(d)

\* Math.ceil(a / b) for b > 0.
Ceil(a, b) == IF a % b = 0 THEN a \div b ELSE (a \div b) + 1

\* The overdue days of a loan due on day due, returned on day now.
DaysOverdue(now, due) ==
    IF LocalMidnight(now) > LocalMidnight(due)
    THEN Ceil(LocalMidnight(now) - LocalMidnight(due), HoursPerDay)
    ELSE 0

\* The fine of a return.
Fine(now, due) == DaysOverdue(now, due) * DAILY_FINE_RATE

----------------------------------------------------------------------------
\* Initial states: a seeded catalogue with no copy lent; book i has copies[i]
\* copies.  Every member but the last registered itself (it has a users row,
\* userId = its id); the last was created by the admin through
\* POST /api/members and has no userId.
SeedBooks(copies) ==
    [i \in BookIds |-> [live |-> TRUE, title |-> "t1", copies |-> copies[i],
                        available |-> copies[i]]]

SeedMembers ==
    [i \in MemberIds |->
        [live |-> TRUE, name |-> "n1", userId |-> IF i < MaxMember THEN i ELSE 0,
         booksBorrowed |-> 0, outstandingFines |-> 0]]

\* The users of the members that registered themselves.
SeedUsers ==
    [i \in UserIds |-> IF i < MaxMember THEN [live |-> TRUE, email |-> i] ELSE NoUser]

\* The server starts: no request, no lock, no connection in use.
Serving(zones) ==
    /\ locks = NoLocks
    /\ pool = 0
    /\ req = [p \in Procs |-> IdleReq]
    /\ \E z \in zones :
          env = [dst |-> z,
                 seed |-> [books |-> books, members |-> members, loans |-> loans]]

\* ... on tables in which every id of the model is taken, but for one user.
Started(zones) ==
    /\ Serving(zones)
    /\ users = SeedUsers
    /\ autoInc = [books |-> MaxBook + 1, members |-> MaxMember + 1,
                  users |-> MaxMember]

\* Zones: without daylight saving (0), or with the clocks put back (-1) or
\* forward (+1) by an hour in the course of day DstDay.
Zones == {-1, 0, 1}

InitIn(zones) ==
    /\ \E c \in [BookIds -> 1..MaxCopies] : books = SeedBooks(c)
    /\ members = SeedMembers
    /\ loans = [i \in LoanIds |-> NoLoan]
    /\ nextLoanId = 1
    /\ today = 0
    /\ Started(zones)

Init == InitIn(Zones)

----------------------------------------------------------------------------
\* Requests.

\* Request p moves on without answering.
Set(p, r) == req' = [req EXCEPT ![p] = r]

\* The slot is free: no request yet, or the response of its last request has
\* been sent.
Idle(p) == req[p].pc \in {"idle", "done"}

\* Request p sends its response, res.status(...).json(...): the slot keeps
\* the operation, its outcome and the member row the request had read until it
\* takes the next request.
Respond(p, op, res) ==
    req' = [req EXCEPT ![p] = [IdleReq EXCEPT !.op = op, !.pc = "done", !.res = res,
                                              !.member = req[p].member]]

BorrowOps == {"borrow", "sborrow"}

\* Borrow requests that may still insert a loan record: the model stops
\* accepting borrows when the ids 1..MaxLoan could run out.
PendingInserts ==
    Cardinality({q \in Procs : req[q].op \in BorrowOps
                               /\ req[q].pc \notin {"rollback", "commit", "done"}})

LoanIdLeft == nextLoanId + PendingInserts <= MaxLoan

\* POST /api/borrow: the request arrives and db.getConnection() hands out a
\* connection.
BorrowStart(p, m, b, d) ==
    /\ Idle(p)
    /\ LoanIdLeft
    /\ PoolFree
    /\ pool' = pool + 1
    /\ Set(p, [IdleReq EXCEPT !.op = "borrow", !.pc = "begin",
                              !.memberId = m, !.bookId = b, !.dueDate = d])
    /\ UNCHANGED <<books, members, loans, nextLoanId, locks, today, env, users, autoInc>>

\* POST /api/student/borrow: the member is looked up by userId on the pool,
\* outside any transaction; 403 when the user has no member profile,
\* otherwise db.getConnection().
StudentBorrowStart(p, u, b, d) ==
    /\ Idle(p)
    /\ LoanIdLeft
    /\ PoolFree
    /\ LET memberRows == {i \in MemberIds : members[i].live /\ members[i].userId = u}
       IN IF memberRows = {}
          THEN /\ Respond(p, "sborrow", "forbidden")
               /\ pool' = pool
          ELSE LET i == CHOOSE i \in memberRows : \A j \in memberRows : i <= j
               IN /\ Set(p, [IdleReq EXCEPT !.op = "sborrow", !.pc = "begin",
                                            !.userId = u, !.bookId = b,
                                            !.dueDate = d, !.memberId = i,
                                            !.member = MemberRead(members[i])])
                  /\ pool' = pool + 1
    /\ UNCHANGED <<books, members, loans, nextLoanId, locks, today, env, users, autoInc>>

\* The first statement of each transactional handler.
FirstStatement(op) ==
    CASE op = "borrow" -> "selectBook"
      [] op = "sborrow" -> "selectBook"
      [] op = "return" -> "selectRecord"
      [] op = "register" -> "insertUser"
      [] OTHER -> "done"

\* connection.beginTransaction().
BeginTransaction(p) ==
    /\ req[p].pc = "begin"
    /\ Set(p, [req[p] EXCEPT !.pc = FirstStatement(req[p].op)])
    /\ UNCHANGED <<books, members, loans, nextLoanId, locks, pool, today, env, users, autoInc>>

\* SELECT * FROM books WHERE id = ? AND available > 0 FOR UPDATE: a locking
\* read of the latest committed row; it waits while another transaction holds
\* the row.  The student route throws at once when no row comes back, the
\* admin route reads the member first.
\* `!book`, `!member`, `!record`: the query returned no row.
\* (Mutant: the check left out.)
MissingNever(row) == FALSE

Missing(row) == ~row.live

\* (Mutant: the statement without `AND available > 0`.)
SelectedBookAnyCount(row) == BookRead(row)

SelectedBook(row) == IF row.live /\ row.available > 0 THEN BookRead(row) ELSE NoBook

BorrowSelectBook(p) ==
    /\ req[p].op \in BorrowOps
    /\ req[p].pc = "selectBook"
    /\ CanLock(p, "book", req[p].bookId)
    /\ LET cur == TxRow(req[p].wb, books, req[p].bookId, NoBook)
           book == SelectedBook(cur)
       IN /\ locks' = IF cur.live THEN ForUpdate(locks, p, "book", req[p].bookId) ELSE locks
          /\ IF req[p].op = "borrow"
             THEN Set(p, [req[p] EXCEPT !.book = book, !.pc = "selectMember"])
             ELSE IF Missing(book)
                  THEN Set(p, [req[p] EXCEPT !.book = book, !.pc = "rollback",
                                             !.err = "unavailable"])
                  ELSE Set(p, [req[p] EXCEPT !.book = book, !.pc = "updateBook"])
    /\ UNCHANGED <<books, members, loans, nextLoanId, pool, today, env, users, autoInc>>

\* SELECT * FROM members WHERE id = ?: a plain read of the committed row
\* inside the transaction; then `if (!book || !member) throw`.
BorrowSelectMember(p) ==
    /\ req[p].op = "borrow"
    /\ req[p].pc = "selectMember"
    /\ LET member == MemberRead(TxRow(req[p].wm, members, req[p].memberId, NoMember))
       IN IF Missing(req[p].book) \/ Missing(member)
          THEN Set(p, [req[p] EXCEPT !.member = member, !.pc = "rollback",
                                     !.err = "unavailable"])
          ELSE Set(p, [req[p] EXCEPT !.member = member, !.pc = "updateBook"])
    /\ UNCHANGED <<books, members, loans, nextLoanId, locks, pool, today, env, users, autoInc>>

\* UPDATE books SET available = available - 1 WHERE id = ?
BorrowUpdateBook(p) ==
    /\ req[p].op \in BorrowOps
    /\ req[p].pc = "updateBook"
    /\ CanLock(p, "book", req[p].bookId)
    /\ LET cur == TxRow(req[p].wb, books, req[p].bookId, NoBook)
       IN IF cur.live
          THEN /\ Set(p, [req[p] EXCEPT
                            !.wb = Put(@, req[p].bookId, BorrowedBook(cur)),
                            !.pc = "updateMember"])
               /\ locks' = Lock(locks, p, "book", req[p].bookId)
          ELSE /\ Set(p, [req[p] EXCEPT !.pc = "updateMember"])
               /\ locks' = locks
    /\ UNCHANGED <<books, members, loans, nextLoanId, pool, today, env, users, autoInc>>

\* UPDATE members SET booksBorrowed = booksBorrowed + 1 WHERE id = ?
\* (no row matches, and nothing fails, when the member is gone).
BorrowUpdateMember(p) ==
    /\ req[p].op \in BorrowOps
    /\ req[p].pc = "updateMember"
    /\ CanLock(p, "member", req[p].memberId)
    /\ LET cur == TxRow(req[p].wm, members, req[p].memberId, NoMember)
       IN IF cur.live
          THEN /\ Set(p, [req[p] EXCEPT
                            !.wm = Put(@, req[p].memberId, BorrowingMember(cur)),
                            !.pc = "insert"])
               /\ locks' = Lock(locks, p, "member", req[p].memberId)
          ELSE /\ Set(p, [req[p] EXCEPT !.pc = "insert"])
               /\ locks' = locks
    /\ UNCHANGED <<books, members, loans, nextLoanId, pool, today, env, users, autoInc>>

\* INSERT INTO borrowed_records (bookId, memberId, bookTitle, memberName,
\* borrowDate, dueDate): the values are those of the rows read earlier.  The
\* new row takes the next AUTO_INCREMENT id, which is used up even if the
\* transaction rolls back.  borrowDate is written and never read by the
\* server; it is left out of the row.
BorrowInsert(p) ==
    /\ req[p].op \in BorrowOps
    /\ req[p].pc = "insert"
    /\ nextLoanId \in LoanIds
    /\ Set(p, [req[p] EXCEPT
                 !.wl = Put(@, nextLoanId,
                            [live |-> TRUE, bookId |-> req[p].bookId,
                             memberId |-> req[p].memberId,
                             bookTitle |-> req[p].book.title,
                             memberName |-> req[p].member.name,
                             dueDate |-> req[p].dueDate]),
                 !.pc = "commit"])
    /\ locks' = Lock(locks, p, "loan", nextLoanId)
    /\ nextLoanId' = nextLoanId + 1
    /\ UNCHANGED <<books, members, loans, pool, today, env, users, autoInc>>

\* connection.commit(): the write set becomes the committed state in one
\* step and the locks go; then the response and, in `finally`,
\* connection.release().
Commit(p) ==
    /\ req[p].pc = "commit"
    /\ books' = Apply(req[p].wb, books)
    /\ members' = Apply(req[p].wm, members)
    /\ loans' = Apply(req[p].wl, loans)
    /\ users' = Apply(req[p].wu, users)
    /\ locks' = Unlock(locks, p)
    /\ pool' = pool - 1
    /\ Respond(p, req[p].op, "ok")
    /\ UNCHANGED <<nextLoanId, today, env, autoInc>>

\* catch: connection.rollback() drops the write set and the locks; the
\* response carries the error; `finally` releases the connection.
Rollback(p) ==
    /\ req[p].pc = "rollback"
    /\ locks' = Unlock(locks, p)
    /\ pool' = pool - 1
    /\ Respond(p, req[p].op, req[p].err)
    /\ UNCHANGED <<books, members, loans, nextLoanId, today, env, users, autoInc>>

\* The statements inside the try block of a transactional handler.
TxStatements == {"selectBook", "selectMember", "updateBook", "updateMember",
                 "insert", "selectRecord", "returnBook", "returnMember",
                 "deleteRecord", "insertUser", "insertMember", "commit"}

\* A statement of the transaction fails in the store (connection lost, lock
\* wait timeout, ...): it has no effect and control passes to catch.
StoreError(p) ==
    /\ req[p].pc \in TxStatements
    /\ Set(p, [req[p] EXCEPT !.pc = "rollback", !.err = "store"])
    /\ UNCHANGED <<books, members, loans, nextLoanId, locks, pool, today, env, users, autoInc>>

\* connection.beginTransaction() fails (the connection the pool handed out is
\* dead): the call stands before the try block, so the handler's promise
\* rejects outside try / catch / finally; no response is sent and
\* connection.release() is not reached.
BeginError(p) ==
    /\ req[p].pc = "begin"
    /\ Respond(p, req[p].op, "unanswered")
    /\ UNCHANGED <<books, members, loans, nextLoanId, locks, pool, today, env, users, autoInc>>

\* Midnight passes.
Tick ==
    /\ today < MaxDay
    /\ today' = today + 1
    /\ UNCHANGED <<books, members, loans, nextLoanId, locks, pool, env, users, autoInc, req>>

----------------------------------------------------------------------------
\* POST /api/return.

ReturnStart(p, id) ==
    /\ Idle(p)
    /\ PoolFree
    /\ pool' = pool + 1
    /\ Set(p, [IdleReq EXCEPT !.op = "return", !.pc = "begin", !.borrowId = id])
    /\ UNCHANGED <<books, members, loans, nextLoanId, locks, today, env, users, autoInc>>

\* SELECT * FROM borrowed_records WHERE id = ? FOR UPDATE, then the fine:
\* today at local midnight against the due date, Math.ceil of the days.
ReturnSelectRecord(p) ==
    /\ req[p].op = "return"
    /\ req[p].pc = "selectRecord"
    /\ CanLock(p, "loan", req[p].borrowId)
    /\ LET record == TxRow(req[p].wl, loans, req[p].borrowId, NoLoan)
       IN IF Missing(record)
          THEN /\ locks' = locks
               /\ Set(p, [req[p] EXCEPT !.pc = "rollback", !.err = "notfound"])
          ELSE /\ locks' = ForUpdate(locks, p, "loan", req[p].borrowId)
               /\ Set(p, [req[p] EXCEPT !.record = record,
                                        !.fine = Fine(today, record.dueDate),
                                        !.pc = "returnBook"])
    /\ UNCHANGED <<books, members, loans, nextLoanId, pool, today, env, users, autoInc>>

\* UPDATE books SET available = available + 1 WHERE id = record.bookId
ReturnUpdateBook(p) ==
    /\ req[p].op = "return"
    /\ req[p].pc = "returnBook"
    /\ CanLock(p, "book", req[p].record.bookId)
    /\ LET b == req[p].record.bookId
           cur == TxRow(req[p].wb, books, b, NoBook)
       IN IF cur.live
          THEN /\ Set(p, [req[p] EXCEPT
                            !.wb = Put(@, b, ReturnedBook(cur)),
                            !.pc = "returnMember"])
               /\ locks' = Lock(locks, p, "book", b)
          ELSE /\ Set(p, [req[p] EXCEPT !.pc = "returnMember"])
               /\ locks' = locks
    /\ UNCHANGED <<books, members, loans, nextLoanId, pool, today, env, users, autoInc>>

\* UPDATE members SET booksBorrowed = booksBorrowed - 1,
\*   outstandingFines = outstandingFines + fine WHERE id = record.memberId
ReturnUpdateMember(p) ==
    /\ req[p].op = "return"
    /\ req[p].pc = "returnMember"
    /\ CanLock(p, "member", req[p].record.memberId)
    /\ LET m == req[p].record.memberId
           cur == TxRow(req[p].wm, members, m, NoMember)
       IN IF cur.live
          THEN /\ Set(p, [req[p] EXCEPT
                            !.wm = Put(@, m, ReturningMember(cur, req[p].fine)),
                            !.pc = "deleteRecord"])
               /\ locks' = Lock(locks, p, "member", m)
          ELSE /\ Set(p, [req[p] EXCEPT !.pc = "deleteRecord"])
               /\ locks' = locks
    /\ UNCHANGED <<books, members, loans, nextLoanId, pool, today, env, users, autoInc>>

\* DELETE FROM borrowed_records WHERE id = ?
ReturnDeleteRecord(p) ==
    /\ req[p].op = "return"
    /\ req[p].pc = "deleteRecord"
    /\ Set(p, [req[p] EXCEPT !.wl = Put(@, req[p].borrowId, NoLoan),
                             !.pc = "commit"])
    /\ UNCHANGED <<books, members, loans, nextLoanId, locks, pool, today, env, users, autoInc>>

----------------------------------------------------------------------------
\* The ledgers: single statements on the pool, each its own transaction.  A
\* writing statement waits for the row lock of an open transaction.

NoLock(kind, id) == id \in DOMAIN locks[kind] => locks[kind][id] = 0

\* POST /api/books: validation (`!title || !author || !copies`), then
\* INSERT INTO books (..., copies, available, ...) VALUES (..., copies, copies,
\* ...) under the next AUTO_INCREMENT id.  The optional isbn is left out (no
\* request of the model sends one).  The model stops inserting when its ids
\* run out.
CreateBook(p, t, n) ==
    /\ Idle(p)
    /\ PoolFree
    /\ IF t = "" \/ n = 0
       THEN /\ Respond(p, "createBook", "validation")
            /\ UNCHANGED <<books, autoInc>>
       ELSE /\ autoInc.books \in BookIds
            /\ books' = [books EXCEPT ![autoInc.books] =
                            [live |-> TRUE, title |-> t, copies |-> n,
                             available |-> n]]
            /\ autoInc' = [autoInc EXCEPT !.books = @ + 1]
            /\ Respond(p, "createBook", "ok")
    /\ UNCHANGED <<members, loans, nextLoanId, locks, pool, today, env, users>>

\* PUT /api/books/:id up to its UPDATE: validation, the read of the old row,
\* the new available count.  title = "" stands for a request without title
\* or author, copies = 0 for one without copies (`!copies`).
\* (Mutant: available left as it was.)
NewAvailableKept(oldBook, n) == oldBook.available

\* copyChange = (copies || oldBook.copies) - oldBook.copies;
\* newAvailable = oldBook.available + copyChange
NewAvailable(oldBook, n) ==
    LET copyChange == (IF n # 0 THEN n ELSE oldBook.copies) - oldBook.copies
    IN oldBook.available + copyChange

UpdateBookStart(p, b, t, n) ==
    /\ Idle(p)
    /\ PoolFree
    /\ LET oldBook == Row(books, b, NoBook)
           newAvailable == NewAvailable(oldBook, n)
       IN IF t = "" \/ n = 0
          THEN Respond(p, "updateBook", "validation")
          ELSE IF ~oldBook.live
          THEN Respond(p, "updateBook", "notfound")
          ELSE IF newAvailable < 0
          THEN Respond(p, "updateBook", "conflict")
          ELSE Set(p, [IdleReq EXCEPT !.op = "updateBook", !.pc = "write",
                                      !.bookId = b, !.title = t, !.copies = n,
                                      !.newAvailable = newAvailable])
    /\ UNCHANGED <<books, members, loans, nextLoanId, locks, pool, today, env, users, autoInc>>

\* UPDATE books SET title = ?, ..., copies = ?, available = ? WHERE id = ?
UpdateBookWrite(p) ==
    /\ req[p].op = "updateBook"
    /\ req[p].pc = "write"
    /\ PoolFree
    /\ NoLock("book", req[p].bookId)
    /\ IF books[req[p].bookId].live
       THEN /\ books' = [books EXCEPT ![req[p].bookId] =
                           [live |-> TRUE, title |-> req[p].title,
                            copies |-> req[p].copies,
                            available |-> req[p].newAvailable]]
            /\ Respond(p, req[p].op, "ok")
       ELSE /\ books' = books
            /\ Respond(p, req[p].op, "notfound")
    /\ UNCHANGED <<members, loans, nextLoanId, locks, pool, today, env, users, autoInc>>

\* SELECT 1 FROM borrowed_records WHERE bookId = ? LIMIT 1 returns a row.
\* (Mutant: the check left out.)
BookOnLoanNever(b) == FALSE

BookOnLoan(b) == \E l \in LoanIds : loans[l].live /\ loans[l].bookId = b

\* SELECT 1 FROM borrowed_records WHERE memberId = ? LIMIT 1 returns a row.
MemberOnLoan(m) == \E l \in LoanIds : loans[l].live /\ loans[l].memberId = m

\* DELETE /api/books/:id up to its DELETE: the check for a loan record.
DeleteBookStart(p, b) ==
    /\ Idle(p)
    /\ PoolFree
    /\ IF BookOnLoan(b)
       THEN Respond(p, "deleteBook", "conflict")
       ELSE Set(p, [IdleReq EXCEPT !.op = "deleteBook", !.pc = "delete", !.bookId = b])
    /\ UNCHANGED <<books, members, loans, nextLoanId, locks, pool, today, env, users, autoInc>>

\* DELETE FROM books WHERE id = ?
DeleteBookDelete(p) ==
    /\ req[p].op = "deleteBook"
    /\ req[p].pc = "delete"
    /\ PoolFree
    /\ NoLock("book", req[p].bookId)
    /\ IF Row(books, req[p].bookId, NoBook).live
       THEN /\ books' = [books EXCEPT ![req[p].bookId] = NoBook]
            /\ Respond(p, req[p].op, "ok")
       ELSE /\ books' = books
            /\ Respond(p, req[p].op, "notfound")
    /\ UNCHANGED <<members, loans, nextLoanId, locks, pool, today, env, users, autoInc>>

\* DELETE /api/members/:id up to its DELETE: the check for a loan record.
DeleteMemberStart(p, m) ==
    /\ Idle(p)
    /\ PoolFree
    /\ IF MemberOnLoan(m)
       THEN Respond(p, "deleteMember", "conflict")
       ELSE Set(p, [IdleReq EXCEPT !.op = "deleteMember", !.pc = "delete",
                                   !.memberId = m])
    /\ UNCHANGED <<books, members, loans, nextLoanId, locks, pool, today, env, users, autoInc>>

\* DELETE FROM members WHERE id = ?
DeleteMemberDelete(p) ==
    /\ req[p].op = "deleteMember"
    /\ req[p].pc = "delete"
    /\ PoolFree
    /\ NoLock("member", req[p].memberId)
    /\ IF Row(members, req[p].memberId, NoMember).live
       THEN /\ members' = [members EXCEPT ![req[p].memberId] = NoMember]
            /\ Respond(p, req[p].op, "ok")
       ELSE /\ members' = members
            /\ Respond(p, req[p].op, "notfound")
    /\ UNCHANGED <<books, loans, nextLoanId, locks, pool, today, env, users, autoInc>>

\* POST /api/members/:id/pay-fines:
\* UPDATE members SET outstandingFines = 0 WHERE id = ?
ClearFines(p, m) ==
    /\ Idle(p)
    /\ PoolFree
    /\ NoLock("member", m)
    /\ IF Row(members, m, NoMember).live
       THEN /\ members' = [members EXCEPT ![m] = ClearedMember(@)]
            /\ Respond(p, "clearFines", "ok")
       ELSE /\ members' = members
            /\ Respond(p, "clearFines", "notfound")
    /\ UNCHANGED <<books, loans, nextLoanId, locks, pool, today, env, users, autoInc>>

----------------------------------------------------------------------------
\* Members and users.

\* POST /api/members: `!name` is a validation error; otherwise
\* INSERT INTO members (name, email, joinDate) under the next AUTO_INCREMENT
\* id; the new member has borrowed nothing, owes nothing and has no user.
CreateMember(p, nm) ==
    /\ Idle(p)
    /\ PoolFree
    /\ IF nm = ""
       THEN /\ Respond(p, "createMember", "validation")
            /\ UNCHANGED <<members, autoInc>>
       ELSE /\ autoInc.members \in MemberIds
            /\ members' = [members EXCEPT ![autoInc.members] =
                              [NoMember EXCEPT !.live = TRUE, !.name = nm]]
            /\ autoInc' = [autoInc EXCEPT !.members = @ + 1]
            /\ Respond(p, "createMember", "ok")
    /\ UNCHANGED <<books, loans, nextLoanId, locks, pool, today, env, users>>

\* PUT /api/members/:id: UPDATE members SET name = ?, email = ? WHERE id = ?
UpdateMember(p, m, nm) ==
    /\ Idle(p)
    /\ PoolFree
    /\ IF nm = ""
       THEN /\ Respond(p, "updateMember", "validation")
            /\ members' = members
       ELSE /\ NoLock("member", m)
            /\ IF Row(members, m, NoMember).live
               THEN /\ members' = [members EXCEPT ![m].name = nm]
                    /\ Respond(p, "updateMember", "ok")
               ELSE /\ members' = members
                    /\ Respond(p, "updateMember", "notfound")
    /\ UNCHANGED <<books, loans, nextLoanId, locks, pool, today, env, users, autoInc>>

\* POST /api/register: validation, then db.getConnection().  em = 0 stands
\* for a request without name, e-mail or password.
RegisterStart(p, nm, em) ==
    /\ Idle(p)
    /\ IF nm = "" \/ em = 0
       THEN /\ Respond(p, "register", "validation")
            /\ pool' = pool
       ELSE /\ PoolFree
            /\ pool' = pool + 1
            /\ Set(p, [IdleReq EXCEPT !.op = "register", !.pc = "begin",
                                      !.name = nm, !.email = em])
    /\ UNCHANGED <<books, members, loans, nextLoanId, locks, today, env, users, autoInc>>

\* The e-mail is taken by a committed user.
EmailTaken(em) == \E u \in UserIds : users[u].live /\ users[u].email = em

\* The e-mail is in the uncommitted insert of another registration: an
\* insert of the same e-mail waits for that transaction to end.
EmailPending(p, em) ==
    \E q \in Procs \ {p} : \E u \in DOMAIN req[q].wu : req[q].wu[u].email = em

\* INSERT INTO users (email, password, role): ER_DUP_ENTRY when the e-mail is
\* registered; otherwise the row takes the next AUTO_INCREMENT id (used up
\* even if the transaction rolls back), which becomes newUserId.
RegisterInsertUser(p) ==
    /\ req[p].op = "register"
    /\ req[p].pc = "insertUser"
    /\ ~EmailPending(p, req[p].email)
    /\ IF EmailTaken(req[p].email)
       THEN /\ Set(p, [req[p] EXCEPT !.pc = "rollback", !.err = "duplicate"])
            /\ autoInc' = autoInc
       ELSE /\ autoInc.users \in UserIds
            /\ Set(p, [req[p] EXCEPT
                         !.wu = Put(@, autoInc.users,
                                    [live |-> TRUE, email |-> req[p].email]),
                         !.userId = autoInc.users,
                         !.pc = "insertMember"])
            /\ autoInc' = [autoInc EXCEPT !.users = @ + 1]
    /\ UNCHANGED <<books, members, loans, nextLoanId, locks, pool, today, env, users>>

\* INSERT INTO members (name, email, joinDate, userId)
RegisterInsertMember(p) ==
    /\ req[p].op = "register"
    /\ req[p].pc = "insertMember"
    /\ autoInc.members \in MemberIds
    /\ Set(p, [req[p] EXCEPT
                 !.wm = Put(@, autoInc.members,
                            [NoMember EXCEPT !.live = TRUE, !.name = req[p].name,
                                             !.userId = req[p].userId]),
                 !.pc = "commit"])
    /\ locks' = Lock(locks, p, "member", autoInc.members)
    /\ autoInc' = [autoInc EXCEPT !.members = @ + 1]
    /\ UNCHANGED <<books, members, loans, nextLoanId, pool, today, env, users>>

RegisterStep(p) ==
    \/ RegisterInsertUser(p)
    \/ RegisterInsertMember(p)

----------------------------------------------------------------------------
\* Request inputs.  Id 0 is an id no row has.
BookArgs == 0..MaxBook
MemberArgs == 0..MaxMember
UserArgs == 1..MaxMember
LoanArgs == LoanIds
CopiesArgs == -1..MaxCopies
TitleArgs == Titles \cup {""}
NameArgs == Names \cup {""}
EmailArgs == Emails \cup {0}

\* The steps of an open request.
BorrowStep(p) ==
    \/ BorrowSelectBook(p)
    \/ BorrowSelectMember(p)
    \/ BorrowUpdateBook(p)
    \/ BorrowUpdateMember(p)
    \/ BorrowInsert(p)

ReturnStep(p) ==
    \/ ReturnSelectRecord(p)
    \/ ReturnUpdateBook(p)
    \/ ReturnUpdateMember(p)
    \/ ReturnDeleteRecord(p)

\* The transaction of request p ends.
End(p) ==
    \/ Commit(p)
    \/ Rollback(p)

Step(p) ==
    \/ BeginTransaction(p)
    \/ BorrowStep(p)
    \/ ReturnStep(p)
    \/ End(p)

LoanStart(p, bookArgs) ==
    \/ \E m \in MemberArgs, b \in bookArgs, d \in Days : BorrowStart(p, m, b, d)
    \/ \E u \in UserArgs, b \in bookArgs, d \in Days : StudentBorrowStart(p, u, b, d)
    \/ \E id \in LoanArgs : ReturnStart(p, id)

DeleteStart(p) ==
    \/ \E b \in BookArgs : DeleteBookStart(p, b)
    \/ \E m \in MemberArgs : DeleteMemberStart(p, m)

DeleteStep(p) ==
    \/ DeleteBookDelete(p)
    \/ DeleteMemberDelete(p)

LedgerStart(p, titleArgs) ==
    \/ \E b \in BookArgs, t \in titleArgs, n \in CopiesArgs : UpdateBookStart(p, b, t, n)
    \/ DeleteStart(p)
    \/ \E m \in MemberArgs : ClearFines(p, m)

LedgerStep(p) ==
    \/ UpdateBookWrite(p)
    \/ DeleteStep(p)

\* Every request concurrently with every other, storage errors included.
Next ==
    \/ \E p \in Procs : LoanStart(p, BookArgs)
    \/ \E p \in Procs : LedgerStart(p, TitleArgs)
    \/ \E p \in Procs, t \in TitleArgs, n \in CopiesArgs : CreateBook(p, t, n)
    \/ \E p \in Procs, nm \in NameArgs : CreateMember(p, nm)
    \/ \E p \in Procs, m \in MemberArgs, nm \in NameArgs : UpdateMember(p, m, nm)
    \/ \E p \in Procs, nm \in NameArgs, em \in EmailArgs : RegisterStart(p, nm, em)
    \/ \E p \in Procs : RegisterStep(p)
    \/ \E p \in Procs : Step(p)
    \/ \E p \in Procs : LedgerStep(p)
    \/ \E p \in Procs : StoreError(p)
    \/ \E p \in Procs : BeginError(p)
    \/ Tick

Spec == Init /\ [][Next]_vars

\* The concurrent scenarios aim at book 1 (and at id 0, which no book has):
\* the other books are bystanders with one copy each.
RaceBooks == {0, 1}

\* Borrow and Return requests only, concurrently, storage errors included.
NextLoan ==
    \/ \E p \in Procs : LoanStart(p, RaceBooks)
    \/ \E p \in Procs : Step(p)
    \/ \E p \in Procs : StoreError(p)
    \/ Tick

InitLoan ==
    /\ \E k \in 1..MaxCopies : books = SeedBooks([i \in BookIds |-> IF i = 1 THEN k ELSE 1])
    /\ members = SeedMembers
    /\ loans = [i \in LoanIds |-> NoLoan]
    /\ nextLoanId = 1
    /\ today = 0
    /\ Started({0})

SpecLoan == InitLoan /\ [][NextLoan]_vars

\* The tables after member 1 has borrowed a copy of book 1, due on day d,
\* while owing f from earlier returns: loan record 1 is outstanding.
LentBooks(copies) == [SeedBooks(copies) EXCEPT ![1] = BorrowedBook(@)]

LentMembers(f) ==
    [SeedMembers EXCEPT ![1] = [BorrowingMember(@) EXCEPT !.outstandingFines = f]]

LentLoans(d) ==
    [i \in LoanIds |->
        IF i = 1
        THEN [live |-> TRUE, bookId |-> 1, memberId |-> 1, bookTitle |-> "t1",
              memberName |-> "n1", dueDate |-> d]
        ELSE NoLoan]

InitLent(zones) ==
    /\ \E c \in [BookIds -> 1..MaxCopies] : books = LentBooks(c)
    /\ \E f \in {0, DAILY_FINE_RATE} : members = LentMembers(f)
    /\ \E d \in Days : loans = LentLoans(d)
    /\ nextLoanId = 2
    /\ today \in Days
    /\ Started(zones)

\* The server starts on a catalogue with nothing lent, or with loan 1
\* outstanding.
InitRoundTrip == InitIn(Zones) \/ InitLent(Zones)

\* One request at a time, on one slot: a request arrives when the last one
\* has been answered.  No storage errors.
SeqProcs == {1}

\* Loans, the passing of days and the payment of fines, in any zone.
NextSeq ==
    \/ \E p \in SeqProcs : Idle(p) /\ LoanStart(p, BookArgs)
    \/ \E p \in SeqProcs, m \in MemberArgs : ClearFines(p, m)
    \/ \E p \in SeqProcs : Step(p)
    \/ Tick

SpecSeq == InitRoundTrip /\ [][NextSeq]_vars

\* Loans and the edits of the ledgers.
NextLedger ==
    \/ \E p \in SeqProcs : Idle(p) /\ LoanStart(p, BookArgs)
    \/ \E p \in SeqProcs : Idle(p) /\ LedgerStart(p, {"t1", ""})
    \/ \E p \in SeqProcs : Step(p)
    \/ \E p \in SeqProcs : LedgerStep(p)

SpecLedger == InitIn({0}) /\ [][NextLedger]_vars

\* A burst of Borrow requests on book 1, by either route: one request per
\* slot, each arriving while none of the burst has been answered, so that all
\* of them are in flight together.  No storage errors.
BurstOpen(p) == req[p].pc = "idle" /\ \A q \in Procs : req[q].pc # "done"

BorrowBurstStart(p) ==
    /\ BurstOpen(p)
    /\ \/ \E m \in MemberArgs, d \in Days : BorrowStart(p, m, 1, d)
       \/ \E u \in UserArgs, d \in Days : StudentBorrowStart(p, u, 1, d)

NextBorrowRace ==
    \/ \E p \in Procs : BorrowBurstStart(p)
    \/ \E p \in Procs : BeginTransaction(p)
    \/ \E p \in Procs : BorrowStep(p)
    \/ \E p \in Procs : End(p)

SpecBorrowRace == InitLoan /\ [][NextBorrowRace]_vars

\* A burst of Return requests for loan record 1, all in flight together,
\* within one day.  No storage errors.
ReturnBurstStart(p) == BurstOpen(p) /\ ReturnStart(p, 1)

NextReturnRace ==
    \/ \E p \in Procs : ReturnBurstStart(p)
    \/ \E p \in Procs : BeginTransaction(p)
    \/ \E p \in Procs : ReturnStep(p)
    \/ \E p \in Procs : End(p)

SpecReturnRace == InitLent(Zones) /\ [][NextReturnRace]_vars

\* One request per slot, in any interleaving: a Borrow of book 1 by either
\* route, or the deletion of a book or of a member.  No storage errors.
BorrowOnceStart(p) ==
    /\ req[p].pc = "idle"
    /\ \/ \E m \in MemberArgs, d \in Days : BorrowStart(p, m, 1, d)
       \/ \E u \in UserArgs, d \in Days : StudentBorrowStart(p, u, 1, d)

DeleteOnceStart(p) == req[p].pc = "idle" /\ DeleteStart(p)

NextDeleteRace ==
    \/ \E p \in Procs : BorrowOnceStart(p)
    \/ \E p \in Procs : DeleteOnceStart(p)
    \/ \E p \in Procs : BeginTransaction(p)
    \/ \E p \in Procs : BorrowStep(p)
    \/ \E p \in Procs : End(p)
    \/ \E p \in Procs : DeleteStep(p)

SpecDeleteRace == InitLoan /\ [][NextDeleteRace]_vars

\* A round trip on one slot: a Borrow and, once it has succeeded, the Return
\* of the loan record it created (the last id handed out), from a
\* catalogue with nothing lent or with loan 1 outstanding.
BorrowOnceAnyStart(p) ==
    /\ req[p].pc = "idle"
    /\ \/ \E m \in MemberArgs, b \in BookArgs, d \in Days : BorrowStart(p, m, b, d)
       \/ \E u \in UserArgs, b \in BookArgs, d \in Days : StudentBorrowStart(p, u, b, d)

ReturnCreatedStart(p) ==
    /\ req[p].op \in BorrowOps
    /\ req[p].pc = "done"
    /\ req[p].res = "ok"
    /\ ReturnStart(p, nextLoanId - 1)

NextRoundTrip ==
    \/ \E p \in SeqProcs : BorrowOnceAnyStart(p)
    \/ \E p \in SeqProcs : ReturnCreatedStart(p)
    \/ \E p \in SeqProcs : Step(p)
    \/ Tick

SpecRoundTrip == InitRoundTrip /\ [][NextRoundTrip]_vars

\* One transactional request per slot, in any interleaving: a Borrow of book
\* 1 by either route or a Return, with loan 1 outstanding; any statement of
\* it, beginTransaction included, may fail in the store.
LoanOnceStart(p) == req[p].pc = "idle" /\ LoanStart(p, RaceBooks)

NextPool ==
    \/ \E p \in Procs : LoanOnceStart(p)
    \/ \E p \in Procs : Step(p)
    \/ \E p \in Procs : StoreError(p)
    \/ \E p \in Procs : BeginError(p)

SpecPool == InitLent({0}) /\ [][NextPool]_vars

\* A catalogue that grows: book 1 is there with k copies, nothing lent; the
\* other ids are still to be handed out.
GrowingBooks(k) ==
    [i \in BookIds |-> IF i = 1 THEN SeedBooks([j \in BookIds |-> k])[i] ELSE NoBook]

InitGrowing ==
    /\ \E k \in 1..MaxCopies : books = GrowingBooks(k)
    /\ members = SeedMembers
    /\ loans = [i \in LoanIds |-> NoLoan]
    /\ nextLoanId = 1
    /\ today = 0
    /\ Serving({0})
    /\ users = SeedUsers
    /\ autoInc = [books |-> 2, members |-> MaxMember + 1, users |-> MaxMember]

\* Every book-mutating request, concurrently: createBook, updateBook of book
\* 1, Borrow of book 1 by member 1 (either route) and Return.  No storage
\* errors.
CatalogueStart(p) ==
    \/ \E n \in CopiesArgs : CreateBook(p, "t1", n)
    \/ \E n \in CopiesArgs : UpdateBookStart(p, 1, "t1", n)
    \/ \E d \in Days : BorrowStart(p, 1, 1, d)
    \/ \E d \in Days : StudentBorrowStart(p, 1, 1, d)
    \/ \E id \in LoanArgs : ReturnStart(p, id)

NextCatalogue ==
    \/ \E p \in Procs : CatalogueStart(p)
    \/ \E p \in Procs : UpdateBookWrite(p)
    \/ \E p \in Procs : Step(p)

SpecCatalogue == InitGrowing /\ [][NextCatalogue]_vars

\* A membership that grows: member 1 registered itself (user 1), nothing is
\* lent; the other member and user ids are still to be handed out.
GrowingMembers == [i \in MemberIds |-> IF i = 1 THEN SeedMembers[i] ELSE NoMember]

GrowingUsers == [i \in UserIds |-> IF i = 1 THEN [live |-> TRUE, email |-> 1] ELSE NoUser]

InitMembership ==
    /\ books = SeedBooks([i \in BookIds |-> MaxCopies])
    /\ members = GrowingMembers
    /\ loans = [i \in LoanIds |-> NoLoan]
    /\ nextLoanId = 1
    /\ today = 0
    /\ Serving({0})
    /\ users = GrowingUsers
    /\ autoInc = [books |-> MaxBook + 1, members |-> 2, users |-> 2]

\* Every request that touches a member row, concurrently: createMember,
\* register, Borrow of book 1 (either route), Return, updateMember,
\* clearFines and deleteMember.  No storage errors.
MembershipStart(p) ==
    \/ \E nm \in {"n1", ""} : CreateMember(p, nm)
    \/ \E em \in EmailArgs : RegisterStart(p, "n1", em)
    \/ \E m \in MemberIds : BorrowStart(p, m, 1, 0)
    \/ \E u \in UserArgs : StudentBorrowStart(p, u, 1, 0)
    \/ \E id \in LoanArgs : ReturnStart(p, id)
    \/ \E m \in MemberIds : UpdateMember(p, m, "n2")
    \/ \E m \in MemberIds : ClearFines(p, m)
    \/ \E m \in MemberIds : DeleteMemberStart(p, m)

NextMembership ==
    \/ \E p \in Procs : MembershipStart(p)
    \/ \E p \in Procs : Step(p)
    \/ \E p \in Procs : RegisterStep(p)
    \/ \E p \in Procs : DeleteMemberDelete(p)

SpecMembership == InitMembership /\ [][NextMembership]_vars

\* Borrow and Return transactions under a store that keeps serving: one
\* request per slot, on any book, member and loan record, in any interleaving,
\* from a catalogue with nothing lent or with loan 1 outstanding.  No storage
\* errors.  The store runs every statement that does not wait for a lock, and
\* grants a lock that stays free to the statement waiting for it.
InitFair ==
    /\ \/ /\ books = SeedBooks([i \in BookIds |-> MaxCopies])
          /\ members = SeedMembers
          /\ loans = [i \in LoanIds |-> NoLoan]
          /\ nextLoanId = 1
       \/ /\ books = LentBooks([i \in BookIds |-> MaxCopies])
          /\ members = LentMembers(0)
          /\ loans = LentLoans(0)
          /\ nextLoanId = 2
    /\ today = 0
    /\ Started({0})

FairStart(p) ==
    /\ req[p].pc = "idle"
    /\ \/ \E m \in MemberArgs, b \in BookArgs : BorrowStart(p, m, b, 0)
       \/ \E u \in UserArgs, b \in BookArgs : StudentBorrowStart(p, u, b, 0)
       \/ \E id \in LoanArgs : ReturnStart(p, id)

NextFair ==
    \/ \E p \in Procs : FairStart(p)
    \/ \E p \in Procs : Step(p)

SpecFair == InitFair /\ [][NextFair]_vars /\ \A p \in Procs : WF_vars(Step(p))

\* Loans while books and members are renamed, concurrently: Borrow of book 1
\* (either route), Return, updateBook of book 1 under either title, updateMember
\* of member 1 to the name "n2" and clearFines of member 1, from a catalogue
\* with nothing lent or with loan 1 outstanding.  No storage errors.
RenameStart(p) ==
    \/ \E m \in MemberIds : BorrowStart(p, m, 1, 0)
    \/ \E u \in UserArgs : StudentBorrowStart(p, u, 1, 0)
    \/ \E id \in LoanArgs : ReturnStart(p, id)
    \/ \E t \in Titles : UpdateBookStart(p, 1, t, MaxCopies)
    \/ UpdateMember(p, 1, "n2")
    \/ ClearFines(p, 1)

NextRename ==
    \/ \E p \in Procs : RenameStart(p)
    \/ \E p \in Procs : UpdateBookWrite(p)
    \/ \E p \in Procs : Step(p)

SpecRename == InitFair /\ [][NextRename]_vars

----------------------------------------------------------------------------
\* Properties.

\* Request p, in flight, takes a step.
Moves(p) == req[p].pc \notin {"idle", "done"} /\ req'[p] # req[p]

\* Slot p changes: its request takes a step, or a request arrives.
Changes(p) == req'[p] # req[p]

\* The requests that have been answered, and the state with none in flight.
Answered == {p \in Procs : req[p].pc = "done"}
Quiet == \A p \in Procs : Idle(p)

Min(a, b) == IF a <= b THEN a ELSE b
Max(a, b) == IF a >= b THEN a ELSE b

\* The requests of a burst that named an existing member (admin route) or
\* came from a user with a member profile (student route), and those of them
\* that succeeded.
ValidBorrows == {p \in Answered : req[p].member.live}
Succeeded(ps) == {p \in ps : req[p].res = "ok"}

\* C1 (as amended): absent storage failures, when n Borrow requests (admin
\* or student route, in any mix), each naming an existing member or sent by a
\* user with a member profile, run concurrently on one book whose available is
\* k, exactly min(n, k) of them succeed, the others fail with the
\* book-unavailable conflict, and the final available is k - min(n, k).  A
\* request that names no existing member fails (book-unavailable conflict on
\* the admin route, ForbiddenError on the student route) and takes no copy.
C1_ValidBorrowsTakeMin ==
    Quiet =>
        LET k == env.seed.books[1].available
            n == Cardinality(ValidBorrows)
        IN /\ Cardinality(Succeeded(ValidBorrows)) = Min(n, k)
           /\ \A p \in ValidBorrows \ Succeeded(ValidBorrows) : req[p].res = "unavailable"
           /\ \A p \in Answered \ ValidBorrows : req[p].res \in {"unavailable", "forbidden"}
           /\ books[1].available = k - Min(n, k)
           /\ Cardinality({l \in LoanIds : loans[l].live}) = Min(n, k)

\* Two concurrent borrows by members of a book with one copy available: one
\* succeeded, one was refused, no copy is left.
C1_Witness ==
    /\ Quiet
    /\ env.seed.books[1].available = 1
    /\ Cardinality(ValidBorrows) >= 2
    /\ \E p, q \in ValidBorrows : req[p].res = "ok" /\ req[q].res = "unavailable"
    /\ books[1].available = 0

\* C1 (as claimed): of any n concurrent Borrow requests on one book whose
\* available is k, exactly min(n, k) succeed, the others fail with the
\* book-unavailable conflict, and the final available is k - min(n, k).
C1_ExactlyMin ==
    (Quiet /\ Cardinality(Answered) >= 2) =>
        LET k == env.seed.books[1].available
            n == Cardinality(Answered)
        IN /\ Cardinality(Succeeded(Answered)) = Min(n, k)
           /\ \A p \in Answered \ Succeeded(Answered) : req[p].res = "unavailable"
           /\ books[1].available = k - Min(n, k)

\* C2: for every book, after any sequence of Borrow and Return requests
\* (succeeding or failing, interleaved or not), 0 <= available <= copies, in
\* the committed row and in the row as an open transaction has written it.
C2_AvailableWithinCopies ==
    /\ \A b \in BookIds :
          books[b].live => 0 <= books[b].available /\ books[b].available <= books[b].copies
    /\ \A p \in Procs : \A b \in DOMAIN req[p].wb :
          0 <= req[p].wb[b].available /\ req[p].wb[b].available <= req[p].wb[b].copies

\* A borrow took the last copy of book 1 after a return had succeeded.
C2_Witness ==
    \E p, q \in Procs :
        /\ req[p].op \in BorrowOps /\ req[p].res = "ok"
        /\ req[q].op = "return" /\ req[q].res = "ok"
        /\ books[1].available = 0
        /\ nextLoanId > MaxLoan

\* The committed row of book b has a copy to lend.
BookAvailable(b) == Row(books, b, NoBook).live /\ Row(books, b, NoBook).available > 0

\* The statements of a Borrow after its locking read of the book.
AfterSelectBook == {"selectMember", "updateBook", "updateMember", "insert",
                    "commit", "rollback"}

\* C3 (as amended): a Borrow whose locking read finds the book row missing or
\* with no copy available fails with the book-unavailable conflict (or with
\* the storage error that interrupts it) and mutates nothing: it writes no
\* row, and none of its steps changes a book, a member or a loan record.  On
\* the student route a caller without a member profile is refused with
\* ForbiddenError before the book is read, whatever the state of the book,
\* and mutates nothing either.
C3_UnavailableBorrowFails ==
    /\ [][\A p \in Procs :
            /\ ( /\ req[p].op \in BorrowOps
                 /\ req[p].pc = "selectBook"
                 /\ Moves(p)
                 /\ req'[p].err # "store"
                 /\ ~BookAvailable(req[p].bookId) )
               => /\ ~req'[p].book.live
                  /\ req'[p].pc = IF req[p].op = "borrow" THEN "selectMember"
                                  ELSE "rollback"
            /\ ( /\ req[p].op \in BorrowOps
                 /\ req[p].pc \in AfterSelectBook
                 /\ ~req[p].book.live
                 /\ Moves(p) )
               => /\ req'[p].pc \in {"rollback", "done"}
                  /\ req'[p].pc = "rollback" => req'[p].err \in {"unavailable", "store"}
                  /\ req'[p].pc = "done" => req'[p].res = req[p].err
                  /\ req[p].err \in {"none", "unavailable", "store"}
                  /\ UNCHANGED <<books, members, loans>>
            /\ (Changes(p) /\ req'[p].res = "forbidden")
               => \A u \in UserArgs, b \in BookArgs, d \in Days :
                     StudentBorrowStart(p, u, b, d)
                     => /\ \A i \in MemberIds : ~(members[i].live /\ members[i].userId = u)
                        /\ UNCHANGED <<books, members, loans>>
         ]_vars
    /\ [](\A p \in Procs :
            ( /\ req[p].op \in BorrowOps
              /\ req[p].pc \in AfterSelectBook
              /\ ~req[p].book.live )
            => req[p].wb = NoWrites /\ req[p].wm = NoWrites /\ req[p].wl = NoWrites)

\* A borrow by an existing member was refused as unavailable while book 1 had
\* no copy left.
C3_Witness ==
    \E p \in Procs :
        /\ req[p].op \in BorrowOps
        /\ req[p].res = "unavailable"
        /\ req[p].member.live
        /\ books[1].available = 0

\* C3 (as claimed): every Borrow answered while its book is missing or has no
\* copy available is answered with the book-unavailable conflict (a storage
\* error aside).
C3_AlwaysConflict ==
    [][\A p \in Procs :
          /\ ( /\ req[p].op \in BorrowOps
               /\ req[p].pc = "rollback"
               /\ Moves(p)
               /\ ~BookAvailable(req[p].bookId) )
             => req'[p].res \in {"unavailable", "store"}
          /\ (Changes(p) /\ req[p].pc # "rollback" /\ req'[p].pc = "done")
             => \A u \in UserArgs, b \in BookArgs, d \in Days :
                   (StudentBorrowStart(p, u, b, d) /\ ~BookAvailable(b))
                   => req'[p].res \in {"unavailable", "store"}
      ]_vars

\* C4: when two or more Return requests for the same loan record run
\* concurrently, exactly one succeeds and the others fail with
\* record-not-found; the book's available goes up by exactly 1, the member's
\* booksBorrowed down by exactly 1, the overdue fine is added to the member's
\* outstandingFines exactly once, and the record is gone.
C4_OneReturnWins ==
    (Quiet /\ Cardinality(Answered) >= 2) =>
        /\ Cardinality(Succeeded(Answered)) = 1
        /\ \A p \in Answered \ Succeeded(Answered) : req[p].res = "notfound"
        /\ books = [env.seed.books EXCEPT ![1].available = @ + 1]
        /\ members = [env.seed.members EXCEPT
                        ![1].booksBorrowed = @ - 1,
                        ![1].outstandingFines =
                            @ + Fine(today, env.seed.loans[1].dueDate)]
        /\ loans = [env.seed.loans EXCEPT ![1] = NoLoan]

\* Two concurrent returns of the overdue loan 1 of a member with a balance:
\* one succeeded, one found no record.
C4_Witness ==
    /\ Quiet
    /\ \E p, q \in Answered : req[p].res = "ok" /\ req[q].res = "notfound"
    /\ env.seed.members[1].outstandingFines > 0
    /\ members[1].outstandingFines > env.seed.members[1].outstandingFines

\* The loan records that are there.
Live(table) == {l \in DOMAIN table : table[l].live}

\* C5: Borrow and Return are all-or-nothing.  A step of a Borrow or Return
\* that is not its successful commit (a statement, a failure, the rollback)
\* leaves every book, member and loan record as committed; and the commit
\* makes all three effects visible together: the book's count, the member's
\* count (and fine), the loan record inserted or deleted.
C5_AllOrNothing ==
    [][\A p \in Procs :
          /\ ( /\ req[p].op \in BorrowOps \cup {"return"}
               /\ Moves(p)
               /\ req'[p].res # "ok" )
             => UNCHANGED <<books, members, loans>>
          /\ ( /\ req[p].op \in BorrowOps
               /\ Moves(p)
               /\ req'[p].res = "ok" )
             => /\ Row(books', req[p].bookId, NoBook).available
                     = Row(books, req[p].bookId, NoBook).available - 1
                /\ Row(members', req[p].memberId, NoMember).booksBorrowed
                     = Row(members, req[p].memberId, NoMember).booksBorrowed + 1
                /\ Cardinality(Live(loans') \ Live(loans)) = 1
          /\ ( /\ req[p].op = "return"
               /\ Moves(p)
               /\ req'[p].res = "ok" )
             => LET record == loans[req[p].borrowId]
                IN /\ Row(books', record.bookId, NoBook).available
                        = Row(books, record.bookId, NoBook).available + 1
                   /\ Row(members', record.memberId, NoMember).booksBorrowed
                        = Row(members, record.memberId, NoMember).booksBorrowed - 1
                   /\ Live(loans) \ Live(loans') = {req[p].borrowId}
      ]_vars

\* C6: from any state in which a Borrow succeeds, the Return of the loan
\* record it created, with nothing in between, restores the book's available
\* and the member's booksBorrowed (every book and every count is as before
\* the Borrow) and leaves no loan record of the borrow.
C6_BorrowThenReturnRestores ==
    \A p \in SeqProcs :
        (req[p].op = "return" /\ req[p].pc = "done" /\ req[p].res = "ok")
        => /\ books = env.seed.books
           /\ \A m \in MemberIds :
                 /\ members[m].live = env.seed.members[m].live
                 /\ members[m].booksBorrowed = env.seed.members[m].booksBorrowed
           /\ loans = env.seed.loans
           /\ ~loans[nextLoanId - 1].live

\* A Borrow made while loan 1 was outstanding has been returned.
C6_Witness ==
    \E p \in SeqProcs :
        /\ req[p].op = "return" /\ req[p].pc = "done" /\ req[p].res = "ok"
        /\ env.seed.loans[1].live
        /\ nextLoanId = 3

\* C7: a successful Return of a loan due d whole days before today charges
\* 100 * max(0, d), and the charge is added to the balance the member had.
C7_FineIsHundredPerDay ==
    [][\A p \in Procs :
          /\ ( /\ req[p].op = "return"
               /\ req[p].pc = "selectRecord"
               /\ req'[p].pc = "returnBook" )
             => req'[p].fine
                  = DAILY_FINE_RATE * Max(0, today - loans[req[p].borrowId].dueDate)
          /\ ( /\ req[p].op = "return"
               /\ Moves(p)
               /\ req'[p].res = "ok" )
             => LET m == req[p].record.memberId
                IN members'[m].outstandingFines
                     = members[m].outstandingFines + req[p].fine
      ]_vars

\* C8: deleteBook and deleteMember on an existing entity fail with the
\* conflict and delete nothing while a loan record references the entity, and
\* succeed, removing the row, when none does, after any sequence of Borrow and
\* Return requests.
C8_DeleteGuardedByLoans ==
    [][\A p \in SeqProcs :
          /\ \A b \in BookIds :
                (Changes(p) /\ books[b].live /\ DeleteBookStart(p, b))
                => IF \E l \in LoanIds : loans[l].live /\ loans[l].bookId = b
                   THEN /\ req'[p].pc = "done" /\ req'[p].res = "conflict"
                        /\ UNCHANGED <<books, members, loans>>
                   ELSE req'[p].pc = "delete" /\ req'[p].bookId = b
          /\ ( /\ req[p].op = "deleteBook" /\ req[p].pc = "delete"
               /\ Row(books, req[p].bookId, NoBook).live
               /\ Moves(p) )
             => /\ req'[p].pc = "done" /\ req'[p].res = "ok"
                /\ ~(\E l \in LoanIds : loans[l].live /\ loans[l].bookId = req[p].bookId)
                /\ books' = [books EXCEPT ![req[p].bookId] = NoBook]
                /\ UNCHANGED <<members, loans>>
          /\ \A m \in MemberIds :
                (Changes(p) /\ members[m].live /\ DeleteMemberStart(p, m))
                => IF \E l \in LoanIds : loans[l].live /\ loans[l].memberId = m
                   THEN /\ req'[p].pc = "done" /\ req'[p].res = "conflict"
                        /\ UNCHANGED <<books, members, loans>>
                   ELSE req'[p].pc = "delete" /\ req'[p].memberId = m
          /\ ( /\ req[p].op = "deleteMember" /\ req[p].pc = "delete"
               /\ Row(members, req[p].memberId, NoMember).live
               /\ Moves(p) )
             => /\ req'[p].pc = "done" /\ req'[p].res = "ok"
                /\ ~(\E l \in LoanIds : loans[l].live /\ loans[l].memberId = req[p].memberId)
                /\ members' = [members EXCEPT ![req[p].memberId] = NoMember]
                /\ UNCHANGED <<books, loans>>
      ]_vars

\* Every book has been deleted, the last one just now, after a loan had been
\* made and returned.
C8_Witness ==
    \E p \in SeqProcs :
        /\ req[p].op = "deleteBook" /\ req[p].res = "ok"
        /\ \A b \in BookIds : ~books[b].live
        /\ nextLoanId > 1
        /\ \A l \in LoanIds : ~loans[l].live

\* C9 (as amended): updateBook(id, copies = n) of an existing book, with title
\* and author given and n # 0, is rejected with the conflict and leaves the
\* row unchanged when oldAvailable + (n - oldCopies) < 0, and otherwise sets
\* copies = n and available = oldAvailable + (n - oldCopies); with n = 0 it is
\* rejected as a validation error, the row unchanged.
C9_UpdateBookCopies ==
    [][\A p \in SeqProcs :
          /\ \A b \in BookIds, t \in Titles, n \in CopiesArgs :
                ( /\ Changes(p) /\ req'[p].op = "updateBook"
                  /\ books[b].live /\ UpdateBookStart(p, b, t, n) )
                => LET newAvailable == books[b].available + (n - books[b].copies)
                   IN IF n = 0
                      THEN /\ req'[p].pc = "done" /\ req'[p].res = "validation"
                           /\ books' = books
                      ELSE IF newAvailable < 0
                      THEN /\ req'[p].pc = "done" /\ req'[p].res = "conflict"
                           /\ books' = books
                      ELSE /\ req'[p].pc = "write"
                           /\ req'[p].bookId = b
                           /\ req'[p].copies = n
                           /\ req'[p].newAvailable = newAvailable
                           /\ books' = books
          /\ ( /\ req[p].op = "updateBook" /\ req[p].pc = "write"
               /\ Moves(p) )
             => /\ req'[p].pc = "done" /\ req'[p].res = "ok"
                /\ books' = [books EXCEPT ![req[p].bookId] =
                                [@ EXCEPT !.title = req[p].title,
                                          !.copies = req[p].copies,
                                          !.available = req[p].newAvailable]]
      ]_vars

\* An update has lowered the copies of book 1 to the one copy that is lent.
C9_Witness ==
    \E p \in SeqProcs :
        /\ req[p].op = "updateBook" /\ req[p].res = "ok"
        /\ env.seed.books[1].copies = 2
        /\ books[1].copies = 1
        /\ books[1].available = 0

\* C9 (as claimed): updateBook(id, copies = n) of an existing book, title and
\* author given, is rejected with the conflict when
\* oldAvailable + (n - oldCopies) < 0, and otherwise goes on to set copies = n
\* and available = oldAvailable + (n - oldCopies), for every n.
C9_EveryCopies ==
    [][\A p \in SeqProcs :
          \A b \in BookIds, t \in Titles, n \in CopiesArgs :
             ( /\ Changes(p) /\ req'[p].op = "updateBook"
               /\ books[b].live /\ UpdateBookStart(p, b, t, n) )
             => LET newAvailable == books[b].available + (n - books[b].copies)
                IN IF newAvailable < 0
                   THEN /\ req'[p].pc = "done" /\ req'[p].res = "conflict"
                        /\ books' = books
                   ELSE /\ req'[p].pc = "write"
                        /\ req'[p].copies = n
                        /\ req'[p].newAvailable = newAvailable
      ]_vars

\* C10: clearFines on an existing member, whatever the balance, succeeds and
\* sets outstandingFines to 0; it changes no booksBorrowed, no other member,
\* no book and no loan record; on a member whose fines are 0 it changes
\* nothing, and clearing a cleared row gives the same row (idempotence).
C10_ClearFinesIdempotent ==
    /\ [][\A p \in SeqProcs, m \in MemberIds :
             ( /\ Changes(p) /\ req'[p].op = "clearFines"
               /\ members[m].live /\ ClearFines(p, m) )
             => /\ req'[p].pc = "done" /\ req'[p].res = "ok"
                /\ members' = [members EXCEPT ![m].outstandingFines = 0]
                /\ members[m].outstandingFines = 0 => members' = members
                /\ UNCHANGED <<books, loans, nextLoanId>>
         ]_vars
    /\ [](\A m \in MemberIds :
             ClearedMember(ClearedMember(members[m])) = ClearedMember(members[m]))

\* The balance member 1 had when the server started has been cleared, its
\* loan untouched.
C10_Witness ==
    \E p \in SeqProcs :
        /\ req[p].op = "clearFines" /\ req[p].res = "ok"
        /\ env.seed.members[1].outstandingFines > 0
        /\ members[1].outstandingFines = 0
        /\ members[1].booksBorrowed = 1

\* The loan records of book b, of member m, and of member m for book b.
LoansOfBook(b) == {l \in LoanIds : loans[l].live /\ loans[l].bookId = b}
LoansOfMember(m) == {l \in LoanIds : loans[l].live /\ loans[l].memberId = m}
LoansOf(m, b) == LoansOfBook(b) \cap LoansOfMember(m)

\* C11: Borrow is not deduplicated.  A Borrow by a member who already holds a
\* loan of the same book is not refused for it: with a copy available it goes
\* on, and its commit adds one more loan record under a new id, keeps the
\* records there are, takes one more copy and counts one more loan; so that
\* two such loans stand for two copies taken and two loans counted.
C11_BorrowNotDeduplicated ==
    /\ [][\A p \in SeqProcs :
             ( /\ req[p].op \in BorrowOps
               /\ Moves(p)
               /\ LoansOf(req[p].memberId, req[p].bookId) # {} )
             => LET b == req[p].bookId
                    m == req[p].memberId
                IN /\ ( /\ req[p].pc = (IF req[p].op = "borrow" THEN "selectMember"
                                         ELSE "selectBook")
                        /\ books[b].available > 0 )
                      => req'[p].pc = "updateBook"
                   /\ req[p].pc = "commit"
                      => /\ req'[p].res = "ok"
                         /\ \E l \in LoanIds \ Live(loans) :
                               /\ loans' = [loans EXCEPT ![l] = loans'[l]]
                               /\ loans'[l].live
                               /\ loans'[l].bookId = b /\ loans'[l].memberId = m
                         /\ books'[b].available = books[b].available - 1
                         /\ members'[m].booksBorrowed = members[m].booksBorrowed + 1
         ]_vars
    /\ [](\A b \in BookIds, m \in MemberIds :
             Cardinality(LoansOf(m, b)) >= 2
             => /\ books[b].available = books[b].copies - Cardinality(LoansOfBook(b))
                /\ members[m].booksBorrowed = Cardinality(LoansOfMember(m)))

\* Member 1 holds two loans of the same book, both made since the server
\* started: two copies fewer are available and two loans counted.
C11_Witness ==
    /\ ~env.seed.loans[1].live
    /\ \E b \in BookIds :
          /\ LoansOf(1, b) = {1, 2}
          /\ books[b].available = env.seed.books[b].available - 2
          /\ members[1].booksBorrowed = 2

\* C12: a Return for an id that matches no loan record (never created, or
\* already returned) fails with record-not-found (a storage error aside) and
\* mutates no book, member or loan record: it writes no row, and neither its
\* read nor its rollback changes a table.
C12_ReturnOfNoRecordFails ==
    /\ [][\A p \in Procs :
             /\ ( /\ req[p].op = "return"
                  /\ req[p].pc = "selectRecord"
                  /\ Moves(p)
                  /\ req'[p].err # "store"
                  /\ ~Row(loans, req[p].borrowId, NoLoan).live )
                => /\ req'[p].pc = "rollback"
                   /\ req'[p].err = "notfound"
                   /\ UNCHANGED <<books, members, loans>>
             /\ ( /\ req[p].op = "return"
                  /\ req[p].pc = "rollback"
                  /\ req[p].err = "notfound"
                  /\ Moves(p) )
                => /\ req'[p].pc = "done"
                   /\ req'[p].res = "notfound"
                   /\ UNCHANGED <<books, members, loans>>
         ]_vars
    /\ [](\A p \in Procs :
             (req[p].op = "return" /\ req[p].err = "notfound")
             => /\ req[p].wb = NoWrites /\ req[p].wm = NoWrites /\ req[p].wl = NoWrites
                /\ \A l \in LoanIds : locks.loan[l] # p)

\* A Return found no record after another Return had succeeded, with no loan
\* left.
C12_Witness ==
    \E p, q \in Procs :
        /\ req[p].op = "return" /\ req[p].res = "notfound"
        /\ req[q].op = "return" /\ req[q].res = "ok"
        /\ Live(loans) = {}

\* C13: every transactional request that acquires a pool connection releases
\* it on every exit path, the failure of beginTransaction included: when all
\* requests have finished, no connection is checked out of the pool.
C13_ConnectionsReleased == Quiet => pool = 0

\* C14: in every reachable state, under createBook, updateBook, Borrow and
\* Return together, for every accepted input and every interleaving, each
\* book has 0 <= available <= copies.
C14_BookInvariantEverywhere ==
    \A b \in BookIds :
        books[b].live => (0 <= books[b].available /\ books[b].available <= books[b].copies)

\* C15: in every reachable state, every loan record's bookId and memberId
\* refer to a book and a member that exist, whatever the interleaving of
\* deleteBook or deleteMember with a concurrent Borrow.
C15_LoansReferToRows ==
    \A l \in LoanIds :
        loans[l].live
        => /\ Row(books, loans[l].bookId, NoBook).live
           /\ Row(members, loans[l].memberId, NoMember).live

\* C16: copy conservation.  In every state in which no request is in
\* progress, each book has available + (loan records of the book) = copies,
\* after any interleaving of createBook, updateBook, Borrow and Return.
C16_CopyConservation ==
    Quiet =>
        \A b \in BookIds :
            books[b].live
            => books[b].available + Cardinality(LoansOfBook(b)) = books[b].copies

\* C17: borrow-count consistency.  In every state in which no request is in
\* progress, each member's booksBorrowed is the number of loan records of that
\* member, and it is never negative, after any interleaving of createMember,
\* register, Borrow (both routes), Return, updateMember, clearFines and
\* deleteMember.
C17_BorrowCountConsistent ==
    /\ \A m \in MemberIds : members[m].booksBorrowed >= 0
    /\ Quiet =>
          \A m \in MemberIds :
              members[m].live
              => members[m].booksBorrowed = Cardinality(LoansOfMember(m))

\* A member who registered since the server started holds a loan, another
\* member has been deleted.
C17_Witness ==
    /\ Quiet
    /\ \E m \in MemberIds :
          /\ ~env.seed.members[m].live
          /\ members[m].live /\ members[m].userId # 0
          /\ members[m].booksBorrowed = 1
    /\ ~members[1].live

\* Request p has an open transaction: beginTransaction() has returned and
\* neither commit() nor rollback() has.
InTransaction(p) == req[p].pc \in TxStatements \cup {"rollback"}

\* Transaction p holds the lock of some row of the table / is granted one in
\* this step.
Holds(p, kind) == \E i \in DOMAIN locks[kind] : locks[kind][i] = p

Takes(p, kind) ==
    \E i \in DOMAIN locks[kind] : locks[kind][i] # p /\ locks'[kind][i] = p

\* Every transaction that has started ends: it commits or rolls back, and the
\* request is answered.
EveryTransactionEnds ==
    \A p \in Procs :
        InTransaction(p) ~> (req[p].pc = "done" /\ req[p].res # "unanswered")

\* C18 (as the code has it): concurrent Borrow and Return transactions never
\* deadlock.  Every transaction takes a book row before a member row; a
\* Return takes its loan record first; a Borrow takes a loan record last, and
\* it is the record it inserts, which no transaction holds and no committed
\* row has, so it never waits for it.  Under fair scheduling of the store
\* every started Borrow or Return transaction eventually commits or rolls
\* back.
C18_NoDeadlock ==
    /\ [][\A p \in Procs :
            /\ Takes(p, "book") => ~Holds(p, "member")
            /\ Takes(p, "loan") /\ req[p].op = "return"
               => ~Holds(p, "book") /\ ~Holds(p, "member")
            /\ Takes(p, "loan") /\ req[p].op \in BorrowOps
               => \A i \in LoanIds :
                      locks'.loan[i] = p /\ locks.loan[i] # p
                      => locks.loan[i] = 0 /\ ~loans[i].live]_vars
    /\ EveryTransactionEnds

\* A Return that holds loan record 1 waits for the book row of a Borrow that
\* holds the book row, a member row and the record it has inserted.
C18_Witness ==
    \E p, q \in Procs :
        /\ req[p].op = "return" /\ req[p].pc = "returnBook"
        /\ locks.loan[1] = p
        /\ req[q].op \in BorrowOps /\ req[q].pc = "commit"
        /\ locks.book[req[p].record.bookId] = q
        /\ Holds(q, "member") /\ Holds(q, "loan")

\* C18 as stated: every transaction takes its row locks in the order loan
\* record, book row, member row, and every started transaction ends.
C18_LoanThenBookThenMember ==
    /\ [][\A p \in Procs :
            /\ Takes(p, "loan") => ~Holds(p, "book") /\ ~Holds(p, "member")
            /\ Takes(p, "book") => ~Holds(p, "member")]_vars
    /\ EveryTransactionEnds

\* C19: a loan record's bookTitle and memberName are those the Borrow that
\* inserted it had read (the book row stays locked from that read to the
\* commit, so bookTitle is also the book's title when the record appears),
\* and no later step changes them: a record stays as it is until the Return
\* of that very record deletes it, whatever updateBook, updateMember,
\* clearFines, Borrow or Return of another loan does.
C19_SnapshotFixedAtBorrow ==
    [][\A l \in LoanIds :
          /\ ~loans[l].live /\ loans'[l].live
             => \E p \in Procs :
                    /\ req[p].op \in BorrowOps /\ req[p].pc = "commit"
                    /\ req'[p].pc = "done"
                    /\ loans'[l].bookTitle = req[p].book.title
                    /\ loans'[l].bookTitle = books[loans'[l].bookId].title
                    /\ loans'[l].memberName = req[p].member.name
          /\ loans[l].live
             => \/ loans'[l] = loans[l]
                \/ /\ ~loans'[l].live
                   /\ \E p \in Procs :
                          /\ req[p].op = "return" /\ req[p].borrowId = l
                          /\ req[p].pc = "commit" /\ req'[p].pc = "done"]_vars

\* A record inserted in this run whose book and member have both been
\* renamed since: it still shows the old title and the old name.
C19_Witness ==
    \E l \in LoanIds :
        /\ ~env.seed.loans[l].live
        /\ loans[l].live
        /\ books[loans[l].bookId].live
        /\ members[loans[l].memberId].live
        /\ loans[l].bookTitle # books[loans[l].bookId].title
        /\ loans[l].memberName # members[loans[l].memberId].name

====
